---- MODULE Spec2Model ----
(***************************************************************************)
(* Model of state-service/src/telemetry.py: the episode-to-summary         *)
(* aggregation (action statistics, cursor distance, regression rates,      *)
(* latency percentiles, pass detection), the record assembly and the       *)
(* reporting call.                                                         *)
(*                                                                         *)
(* Python values are encoded uniformly so that TLC can compare them:       *)
(*   - a dict key the code reads with a default, or tests with "in", is a  *)
(*     record [kind, val]: kind "missing" when the dict has no such key,   *)
(*     "none" when the key is stored with None, "int" or "bool" when it    *)
(*     holds the value val (a bool holds 1 or 0);                          *)
(*   - a value that is None or present (a result, an environment           *)
(*     variable, a key read by .get(k) alone) is <<>> or <<v>>;            *)
(*   - a function that raises returns a record whose field "raised" names  *)
(*     the exception; its other fields then carry no meaning.              *)
(***************************************************************************)
EXTENDS Integers, Sequences, FiniteSets, TLC

VARIABLES
    episode,            \* the Episode handed to the call
    DISABLE_TELEMETRY,  \* the environment variable, None when unset
    user_key_map,       \* auth/userKeyMap.json
    ip_service,         \* how the public-IP service answers
    problem,            \* what _load_problem answers for episode.problem_id
    pc,                 \* "start", "assembled", "returned" or "raised"
    result,             \* what the called function returned, None before
    lookups,            \* identity, dataset and IP lookups made so far
    n_posts,            \* requests.post calls made so far
    post_response,      \* "none", "ok", "http_error" or "transport_error"
    n_error_logs,       \* logger.error calls
    n_info_logs         \* logger.info calls

vars == <<episode, DISABLE_TELEMETRY, user_key_map, ip_service, problem,
          pc, result, lookups, n_posts, post_response, n_error_logs,
          n_info_logs>>

(***************************************************************************)
(* Optional values and dict keys.                                          *)
(***************************************************************************)
None == <<>>

Some(v) == <<v>>

Missing == [kind |-> "missing", val |-> 0]

StoredNone == [kind |-> "none", val |-> 0]

IntValue(v) == [kind |-> "int", val |-> v]

BoolValue(b) == [kind |-> "bool", val |-> IF b THEN 1 ELSE 0]

\* dict.get(key, default): the default serves only a missing key; a key stored
\* with None answers None
GetOr(field, default) == IF field.kind = "missing" THEN default ELSE field

\* the truth value of what a key holds: None, False and 0 are false
IsTruthy(value) == value.kind \in {"int", "bool"} /\ value.val # 0

\* os.environ.get(name, default): an environment value is never None
EnvironGet(opt, default) == IF opt = None THEN default ELSE opt[1]

Abs(x) == IF x < 0 THEN -x ELSE x

Max(a, b) == IF a >= b THEN a ELSE b

(***************************************************************************)
(* ActionIndex: the closed enumeration of action kinds (src.api.datatypes).*)
(***************************************************************************)
NO_OP == "no_op"

FILL_PARTIAL_LINE == "fill_partial_line"

REPLACE_AND_APPEND_SINGLE_LINE == "replace_and_append_single_line"

REPLACE_AND_APPEND_MULTI_LINE == "replace_and_append_multi_line"

EDIT_EXISTING_LINES == "edit_existing_lines"

EXPLAIN_SINGLE_LINES == "explain_single_lines"

EXPLAIN_MULTI_LINE == "explain_multi_line"

ActionIndex ==
    { NO_OP, FILL_PARTIAL_LINE, REPLACE_AND_APPEND_SINGLE_LINE,
      REPLACE_AND_APPEND_MULTI_LINE, EDIT_EXISTING_LINES,
      EXPLAIN_SINGLE_LINES, EXPLAIN_MULTI_LINE }

(***************************************************************************)
(* Encoding of a state's action.                                           *)
(*   state.action is None:  [is_none |-> TRUE, ...]                        *)
(*   otherwise a dict with no keys but "A", "H" and "target_line"; A and H *)
(*   are the keys "A" and "H":                                             *)
(*     [kind |-> "missing"]  the dict has no such key                      *)
(*     [kind |-> "none"]     the key is stored with None                   *)
(*     [kind |-> "nondict"]  a value without a .get method (a string)      *)
(*     [kind |-> "dict"]     a payload; type is .get("type") (None when    *)
(*                           missing), target_line its own target_line     *)
(*   target_line is the TOP-LEVEL key "target_line" of the action dict.    *)
(*   The empty dict {} is the action whose three keys are all missing.     *)
(***************************************************************************)
MissingBranch == [kind |-> "missing", type |-> None, target_line |-> Missing]

NoneBranch == [kind |-> "none", type |-> None, target_line |-> Missing]

NonDictBranch == [kind |-> "nondict", type |-> None, target_line |-> Missing]

Payload(type, target_line) ==
    [kind |-> "dict", type |-> type, target_line |-> target_line]

NullAction ==
    [is_none |-> TRUE, A |-> MissingBranch, H |-> MissingBranch,
     target_line |-> Missing]

Action(a, h, target_line) ==
    [is_none |-> FALSE, A |-> a, H |-> h, target_line |-> target_line]

(***************************************************************************)
(* Encoding of an attribution entry: a non-dict, or a dict whose "cursor"  *)
(* is missing, a non-dict, or a dict with the keys "line" and "char".      *)
(***************************************************************************)
NonDictAttr ==
    [is_dict |-> FALSE, cursor |-> "absent", line |-> Missing, char |-> Missing]

AttrNoCursor ==
    [is_dict |-> TRUE, cursor |-> "absent", line |-> Missing, char |-> Missing]

AttrCursorNonDict ==
    [is_dict |-> TRUE, cursor |-> "nondict", line |-> Missing, char |-> Missing]

AttrCursor(line, char) ==
    [is_dict |-> TRUE, cursor |-> "dict", line |-> line, char |-> char]

\* Assume ~80 chars per line
CharsPerLine == 80

\* what _get_cursor_line_from_attribution answers: value is None ("none") or
\* a line number
CursorLine(value) == [raised |-> "none", value |-> value]

\* the loop of _get_cursor_line_from_attribution.  "line" in cursor_info and
\* "char" in cursor_info test the presence of the key: a "line" stored with
\* None is returned as it is, a "char" stored with None raises TypeError in
\* char_pos // 80
RECURSIVE CursorLineFrom(_, _)
CursorLineFrom(attribution, i) ==
    IF i > Len(attribution) THEN CursorLine(StoredNone)
    ELSE LET attr == attribution[i] IN
         IF attr.is_dict /\ attr.cursor = "dict" /\ attr.line.kind # "missing"
         THEN CursorLine(attr.line)
         ELSE IF attr.is_dict /\ attr.cursor = "dict" /\ attr.char.kind # "missing"
         THEN LET char_pos == GetOr(attr.char, IntValue(0)) IN
              IF char_pos.kind = "none"
              THEN [raised |-> "TypeError", value |-> StoredNone]
              ELSE CursorLine(IntValue(Max(1, char_pos.val \div CharsPerLine)))
         ELSE CursorLineFrom(attribution, i + 1)

_get_cursor_line_from_attribution(attribution) ==
    IF attribution = <<>> THEN CursorLine(StoredNone)
    ELSE CursorLineFrom(attribution, 1)

\* not state.action: true of None and of the empty dict
ActionIsFalsy(action) ==
    \/ action.is_none
    \/ /\ action.A.kind = "missing"
       /\ action.H.kind = "missing"
       /\ action.target_line.kind = "missing"

\* state.action.get("target_line", 1): the key of the action dict itself
TargetLineOf(action) == GetOr(action.target_line, IntValue(1))

\* the distance, or the TypeError of the cursor lookup or of abs(None - line)
_calculate_cursor_distance(state) ==
    IF ActionIsFalsy(state.action) THEN [raised |-> "none", value |-> 0]
    ELSE LET target_line == TargetLineOf(state.action)
             cursor_line == _get_cursor_line_from_attribution(state.attribution)
         IN  IF cursor_line.raised # "none"
             THEN [raised |-> cursor_line.raised, value |-> 0]
             ELSE IF cursor_line.value.kind = "none"
             THEN [raised |-> "none", value |-> 0]
             ELSE IF target_line.kind = "none"
             THEN [raised |-> "TypeError", value |-> 0]
             ELSE [raised |-> "none",
                   value |-> Abs(target_line.val - cursor_line.value.val)]

\* faulty variant: decides by the absence of "H" instead of the presence of "A"
IsAssistantWhenNoHuman(action_dict) ==
    IF action_dict.is_none THEN FALSE
    ELSE IF action_dict.H.kind \in {"missing", "none"} THEN TRUE ELSE FALSE

_is_assistant_action(action_dict) ==
    IF action_dict.is_none THEN FALSE
    ELSE IF action_dict.A.kind \notin {"missing", "none"} THEN TRUE ELSE FALSE

(***************************************************************************)
(* One iteration of the loop of _compute_action_statistics.                *)
(*   "continue"        action is None                                      *)
(*   "AttributeError"  .get("type") on None or on a non-dict branch; the   *)
(*                     expression sits before the try block                *)
(*   "skip"            ActionIndex(action_type) raised ValueError          *)
(*   "counted"         classified; kind and actor say which counter        *)
(***************************************************************************)
TaggedBranch(action) == IF _is_assistant_action(action) THEN action.A ELSE action.H

StepOutcome(state) ==
    IF state.action.is_none THEN "continue"
    ELSE IF TaggedBranch(state.action).kind # "dict" THEN "AttributeError"
    ELSE IF TaggedBranch(state.action).type = None THEN "skip"
    ELSE IF TaggedBranch(state.action).type[1] \notin ActionIndex THEN "skip"
    ELSE "counted"

DistanceKinds == {EDIT_EXISTING_LINES, EXPLAIN_SINGLE_LINES, EXPLAIN_MULTI_LINE}

ZeroCounts == [action \in ActionIndex |-> 0]

InitialStats ==
    [raised |-> "none",
     assistant_actions |-> ZeroCounts,
     human_actions |-> ZeroCounts,
     edit_existing_distances |-> <<>>,
     explain_single_distances |-> <<>>,
     explain_multi_distances |-> <<>>]

Bump(counts, action_enum) == [counts EXCEPT ![action_enum] = @ + 1]

\* distances.append(distance): the TypeError of the distance is caught by the
\* except clause of the loop, after the counter was incremented and before the
\* append
AppendDistance(distances, distance) ==
    IF distance.raised # "none" THEN distances
    ELSE Append(distances, distance.value)

\* The try block for a state that classifies.
CountState(acc, state) ==
    LET action_enum == TaggedBranch(state.action).type[1]
        is_assistant == _is_assistant_action(state.action)
        distance == _calculate_cursor_distance(state)
    IN  [raised |-> "none",
         assistant_actions |->
             IF is_assistant THEN Bump(acc.assistant_actions, action_enum)
             ELSE acc.assistant_actions,
         human_actions |->
             IF is_assistant THEN acc.human_actions
             ELSE Bump(acc.human_actions, action_enum),
         edit_existing_distances |->
             IF action_enum = EDIT_EXISTING_LINES
             THEN AppendDistance(acc.edit_existing_distances, distance)
             ELSE acc.edit_existing_distances,
         explain_single_distances |->
             IF action_enum = EXPLAIN_SINGLE_LINES
             THEN AppendDistance(acc.explain_single_distances, distance)
             ELSE acc.explain_single_distances,
         explain_multi_distances |->
             IF action_enum = EXPLAIN_MULTI_LINE
             THEN AppendDistance(acc.explain_multi_distances, distance)
             ELSE acc.explain_multi_distances]

RECURSIVE StatsLoop(_, _, _)
StatsLoop(states, i, acc) ==
    IF i > Len(states) THEN acc
    ELSE LET outcome == StepOutcome(states[i]) IN
         IF outcome = "AttributeError"
         THEN [InitialStats EXCEPT !.raised = "AttributeError"]
         ELSE IF outcome = "counted"
         THEN StatsLoop(states, i + 1, CountState(acc, states[i]))
         ELSE StatsLoop(states, i + 1, acc)

_compute_action_statistics(ep) == StatsLoop(ep.states, 1, InitialStats)

(***************************************************************************)
(* States and episodes.                                                    *)
(*   timestamp_ms: [kind, val] with kind "missing" (no such attribute),    *)
(*   "none" (None), "str" (a non-numeric string) or "int" (val).           *)
(*   env: compiled is the key "compiled" and tests_passed the key "passed" *)
(*   of env["tests"], missing also when env has no "tests".                *)
(***************************************************************************)
TsMissing == [kind |-> "missing", val |-> 0]

TsNone == [kind |-> "none", val |-> 0]

TsNonNumeric == [kind |-> "str", val |-> 0]

TsInt(v) == [kind |-> "int", val |-> v]

Env(compiled, tests_passed) == [compiled |-> compiled, tests_passed |-> tests_passed]

State(timestep, timestamp_ms, action, attribution, env) ==
    [timestep |-> timestep, timestamp_ms |-> timestamp_ms, action |-> action,
     attribution |-> attribution, env |-> env]

Episode(states, start_time, end_time) ==
    [states |-> states, start_time |-> start_time, end_time |-> end_time]

\* state.env.get("compiled", False)
Compiled(state) == GetOr(state.env.compiled, BoolValue(FALSE))

\* state.env.get("tests", {}).get("passed", 0)
TestsPassed(state) == GetOr(state.env.tests_passed, IntValue(0))

\* sorted(states, key=lambda s: s.timestep): stable, ascending
RECURSIVE InsertByTimestep(_, _)
InsertByTimestep(sorted, s) ==
    IF sorted = <<>> THEN <<s>>
    ELSE IF sorted[Len(sorted)].timestep <= s.timestep THEN Append(sorted, s)
    ELSE Append(InsertByTimestep(SubSeq(sorted, 1, Len(sorted) - 1), s),
                sorted[Len(sorted)])

RECURSIVE SortedPrefix(_, _)
SortedPrefix(states, n) ==
    IF n = 0 THEN <<>>
    ELSE InsertByTimestep(SortedPrefix(states, n - 1), states[n])

SortByTimestep(states) == SortedPrefix(states, Len(states))

\* max(states, key=lambda s: s.timestep): the first maximal element
RECURSIVE MaxPrefix(_, _)
MaxPrefix(states, n) ==
    IF n = 1 THEN states[1]
    ELSE LET best == MaxPrefix(states, n - 1) IN
         IF states[n].timestep > best.timestep THEN states[n] ELSE best

MaxByTimestep(states) == MaxPrefix(states, Len(states))

(***************************************************************************)
(* _compute_regression_rates.  A rate count / max(total, 1) is kept as the *)
(* pair [num, den]; 0.0 is [num |-> 0, den |-> 1].                         *)
(***************************************************************************)
Rate(num, den) == [num |-> num, den |-> den]

CompileRegression(prev, curr) ==
    IsTruthy(Compiled(prev)) /\ ~IsTruthy(Compiled(curr))

\* faulty variant: any change of the compiled flag counts as a progression
CompileProgressionOnAnyChange(prev, curr) ==
    IsTruthy(Compiled(prev)) # IsTruthy(Compiled(curr))

CompileProgression(prev, curr) ==
    ~CompileRegression(prev, curr)
    /\ ~IsTruthy(Compiled(prev)) /\ IsTruthy(Compiled(curr))

\* curr_tests_passed < prev_tests_passed raises TypeError when either is None
TestCompareRaises(prev, curr) ==
    TestsPassed(prev).kind = "none" \/ TestsPassed(curr).kind = "none"

TestRegression(prev, curr) ==
    ~TestCompareRaises(prev, curr) /\ TestsPassed(curr).val < TestsPassed(prev).val

TestProgression(prev, curr) ==
    /\ ~TestCompareRaises(prev, curr)
    /\ ~TestRegression(prev, curr)
    /\ TestsPassed(curr).val > TestsPassed(prev).val

\* whether the pair is counted by the counter named
Counted(counter, prev, curr) ==
    IF counter = "compile_regressions" THEN CompileRegression(prev, curr)
    ELSE IF counter = "compile_progressions" THEN CompileProgression(prev, curr)
    ELSE IF counter = "test_regressions" THEN TestRegression(prev, curr)
    ELSE TestProgression(prev, curr)

\* the value of a counter after the loop over i in 1..n-1
RECURSIVE CountTransitions(_, _, _)
CountTransitions(counter, states, n) ==
    IF n < 2 THEN 0
    ELSE CountTransitions(counter, states, n - 1)
         + (IF Counted(counter, states[n - 1], states[n]) THEN 1 ELSE 0)

ZeroRates ==
    [raised |-> "none",
     test_regression_rate |-> Rate(0, 1),
     compile_regression_rate |-> Rate(0, 1),
     test_progression_rate |-> Rate(0, 1),
     compile_progression_rate |-> Rate(0, 1)]

\* the function has no try block: the TypeError of a comparison leaves it
_compute_regression_rates(ep) ==
    IF Len(ep.states) < 2 THEN ZeroRates
    ELSE LET n == Len(ep.states)
             total_transitions == n - 1
             den == Max(total_transitions, 1)
         IN  IF \E i \in 2..n : TestCompareRaises(ep.states[i - 1], ep.states[i])
             THEN [ZeroRates EXCEPT !.raised = "TypeError"]
             ELSE [raised |-> "none",
                   test_regression_rate |->
                       Rate(CountTransitions("test_regressions", ep.states, n), den),
                   compile_regression_rate |->
                       Rate(CountTransitions("compile_regressions", ep.states, n), den),
                   test_progression_rate |->
                       Rate(CountTransitions("test_progressions", ep.states, n), den),
                   compile_progression_rate |->
                       Rate(CountTransitions("compile_progressions", ep.states, n), den)]

(***************************************************************************)
(* _compute_latency_stats.                                                 *)
(***************************************************************************)
\* isinstance(prev_ts, int) and isinstance(curr_ts, int) and delta > 0
RECURSIVE Latencies(_, _)
Latencies(states, n) ==
    IF n < 2 THEN <<>>
    ELSE LET prev_ts == states[n - 1].timestamp_ms
             curr_ts == states[n].timestamp_ms
             rest == Latencies(states, n - 1)
         IN  IF prev_ts.kind = "int" /\ curr_ts.kind = "int"
                /\ curr_ts.val - prev_ts.val > 0
             THEN Append(rest, curr_ts.val - prev_ts.val)
             ELSE rest

\* list.sort() on integers
RECURSIVE InsertInt(_, _)
InsertInt(sorted, x) ==
    IF sorted = <<>> THEN <<x>>
    ELSE IF sorted[Len(sorted)] <= x THEN Append(sorted, x)
    ELSE Append(InsertInt(SubSeq(sorted, 1, Len(sorted) - 1), x),
                sorted[Len(sorted)])

RECURSIVE SortInts(_)
SortInts(xs) ==
    IF xs = <<>> THEN <<>>
    ELSE InsertInt(SortInts(SubSeq(xs, 1, Len(xs) - 1)), xs[Len(xs)])

\* faulty variant: rounds to the nearest index instead of truncating
PercentileIndexRounded(n, pct) == (n * pct + 50) \div 100

\* int(n * 0.5), int(n * 0.9), int(n * 0.99): pct is 50, 90 or 99
PercentileIndex(n, pct) == (n * pct) \div 100

ZeroLatency ==
    [raised |-> "none", p50_latency_ms |-> 0, p90_latency_ms |-> 0,
     p99_latency_ms |-> 0]

\* latencies[i] for zero-based i; a read past the end raises IndexError
InRange(xs, i) == i + 1 <= Len(xs)

_compute_latency_stats(ep) ==
    IF Len(ep.states) < 2 THEN ZeroLatency
    ELSE LET states == SortByTimestep(ep.states)
             unsorted == Latencies(states, Len(states))
         IN  IF unsorted = <<>> THEN ZeroLatency
             ELSE LET latencies == SortInts(unsorted)
                      n == Len(latencies)
                      i50 == PercentileIndex(n, 50)
                      i90 == PercentileIndex(n, 90)
                      i99 == PercentileIndex(n, 99)
                  IN  IF InRange(latencies, i50) /\ InRange(latencies, i90)
                         /\ InRange(latencies, i99)
                      THEN [raised |-> "none",
                            p50_latency_ms |-> latencies[i50 + 1],
                            p90_latency_ms |-> latencies[i90 + 1],
                            p99_latency_ms |-> latencies[i99 + 1]]
                      ELSE [ZeroLatency EXCEPT !.raised = "IndexError"]

(***************************************************************************)
(* Pass detection: lines 321-346 of convert_episode_session_to_telemetry_  *)
(* event.                                                                  *)
(***************************************************************************)
\* compiled and tests_passed > 0 raises TypeError when compiled is true and
\* tests_passed is None; a false compiled short-circuits the comparison
PassRaises(state) ==
    IsTruthy(Compiled(state)) /\ TestsPassed(state).kind = "none"

\* faulty variant: the scan asks for more than one passed test
PassingMoreThanOne(state) ==
    /\ IsTruthy(Compiled(state))
    /\ TestsPassed(state).kind # "none"
    /\ TestsPassed(state).val > 1

Passing(state) ==
    /\ IsTruthy(Compiled(state))
    /\ TestsPassed(state).kind # "none"
    /\ TestsPassed(state).val > 0

\* int(getattr(state, "timestamp_ms", 0)): the default serves only a missing
\* attribute; int(None) raises TypeError, int("abc") raises ValueError
IntOfTimestamp(ts) ==
    IF ts.kind = "missing" THEN [raised |-> "none", val |-> 0]
    ELSE IF ts.kind = "none" THEN [raised |-> "TypeError", val |-> 0]
    ELSE IF ts.kind = "str" THEN [raised |-> "ValueError", val |-> 0]
    ELSE [raised |-> "none", val |-> ts.val]

\* index of the first state at which the scan stops, because the state passes
\* or because its test raises; 0 when the scan reaches the end
RECURSIVE FirstPassingFrom(_, _)
FirstPassingFrom(states, i) ==
    IF i > Len(states) THEN 0
    ELSE IF PassRaises(states[i]) THEN i
    ELSE IF Passing(states[i]) THEN i
    ELSE FirstPassingFrom(states, i + 1)

\* success is what "compiled and tests_passed > 0" evaluates to: the value of
\* compiled when that is false (False, None or 0), the comparison otherwise
NoPass(success) ==
    [raised |-> "none", success |-> success, time_to_pass |-> None,
     turns_to_pass |-> None]

PassDetection(ep) ==
    IF ep.states = <<>> THEN NoPass(BoolValue(FALSE))
    ELSE LET final_state == MaxByTimestep(ep.states)
             compiled == Compiled(final_state)
             tests_passed == TestsPassed(final_state)
             success == IF IsTruthy(compiled)
                        THEN BoolValue(tests_passed.val > 0)
                        ELSE compiled
             sorted == SortByTimestep(ep.states)
             k == FirstPassingFrom(sorted, 1)
         IN  IF PassRaises(final_state)
             THEN [NoPass(BoolValue(FALSE)) EXCEPT !.raised = "TypeError"]
             ELSE IF k = 0 THEN NoPass(success)
             ELSE IF PassRaises(sorted[k])
             THEN [NoPass(BoolValue(FALSE)) EXCEPT !.raised = "TypeError"]
             ELSE LET ts == IntOfTimestamp(sorted[k].timestamp_ms) IN
                  IF ts.raised # "none"
                  THEN [NoPass(BoolValue(FALSE)) EXCEPT !.raised = ts.raised]
                  ELSE [raised |-> "none",
                        success |-> success,
                        time_to_pass |-> Some(Max(0, ts.val - ep.start_time)),
                        turns_to_pass |-> Some(sorted[k].timestep)]

(***************************************************************************)
(* External lookups.                                                       *)
(*   user_key_map: what auth/userKeyMap.json holds                         *)
(*     "missing"       no such file: open() raises FileNotFoundError       *)
(*     "unreadable"    open() raises PermissionError                       *)
(*     "invalid_json"  an empty or garbled file: json.load raises          *)
(*     "empty_map"     {}                                                  *)
(*     "no_account"    a first entry without user.accountAddress           *)
(*     "ok"            a first entry with an account address               *)
(*   ip_service: "ok" or "error" (timeout, connection error)               *)
(*   problem: what _load_problem answers                                   *)
(***************************************************************************)
AccountAddress == "0xabc"

IpText == "203.0.113.7"

get_user_id(map) ==
    IF map = "missing" THEN [raised |-> "FileNotFoundError", value |-> ""]
    ELSE IF map = "unreadable" THEN [raised |-> "PermissionError", value |-> ""]
    ELSE IF map = "invalid_json" THEN [raised |-> "JSONDecodeError", value |-> ""]
    ELSE IF map = "no_account" THEN [raised |-> "KeyError", value |-> ""]
    ELSE IF map = "ok" THEN [raised |-> "none", value |-> AccountAddress]
    ELSE [raised |-> "none", value |-> "unknown"]

\* _load_problem: None ("none"), or a dict whose "question_id" is missing
\* ("no_question_id"), not an int ("non_int") or an int ("int")
Problem(kind, question_id) == [kind |-> kind, question_id |-> question_id]

_load_problem_question_id(prob) ==
    IF prob.kind = "int" THEN Some(prob.question_id) ELSE None

get_ip(service) ==
    IF service = "ok" THEN [raised |-> "none", value |-> Some(IpText)]
    ELSE [raised |-> "RequestException", value |-> None]

(***************************************************************************)
(* is_telemetry_disabled.  The environment value is a tuple of characters; *)
(* None when the variable is unset.                                        *)
(***************************************************************************)
\* the strings s with s.lower() in ("true", "1", "yes"): the three words with
\* each letter in either case.  str.lower() works character by character and
\* no other character lower-cases to a letter of these words.
DisablingValues ==
    { <<t, r, u, e>> : t \in {"t", "T"}, r \in {"r", "R"}, u \in {"u", "U"},
                       e \in {"e", "E"} }
    \cup { <<"1">> }
    \cup { <<y, e, s>> : y \in {"y", "Y"}, e \in {"e", "E"}, s \in {"s", "S"} }

\* faulty variant: compares without lower-casing
IsDisabledCaseSensitive(value) ==
    EnvironGet(value, <<"f", "a", "l", "s", "e">>)
        \in { <<"t", "r", "u", "e">>, <<"1">>, <<"y", "e", "s">> }

is_telemetry_disabled(value) ==
    EnvironGet(value, <<"f", "a", "l", "s", "e">>) \in DisablingValues

(***************************************************************************)
(* convert_episode_session_to_telemetry_event.  The record, or the         *)
(* exception that left the function.  n_user_id, n_problem and n_ip count  *)
(* the lookups the call made before it ended.                              *)
(***************************************************************************)
ConvertRaised(exc, n_problem, n_ip) ==
    [raised |-> exc, n_user_id |-> 1, n_problem |-> n_problem, n_ip |-> n_ip,
     user_id |-> "", question_id |-> None, ip_addr |-> None,
     duration_ms |-> 0, total_turns |-> 0,
     success |-> BoolValue(FALSE), time_to_pass |-> None, turns_to_pass |-> None,
     rates |-> ZeroRates,
     latency |-> ZeroLatency,
     assistant_actions |-> ZeroCounts, human_actions |-> ZeroCounts]

convert_episode_session_to_telemetry_event(ep, map, prob, service) ==
    LET user_id == get_user_id(map)
        question_id == _load_problem_question_id(prob)
        ip == get_ip(service)
        ip_addr == IF ip.raised # "none" THEN None ELSE ip.value
        pass == PassDetection(ep)
        action_stats == _compute_action_statistics(ep)
        regression_rates == _compute_regression_rates(ep)
        latency_stats == _compute_latency_stats(ep)
    IN  IF user_id.raised # "none" THEN ConvertRaised(user_id.raised, 0, 0)
        ELSE IF pass.raised # "none" THEN ConvertRaised(pass.raised, 1, 1)
        ELSE IF action_stats.raised # "none"
        THEN ConvertRaised(action_stats.raised, 1, 1)
        ELSE IF regression_rates.raised # "none"
        THEN ConvertRaised(regression_rates.raised, 1, 1)
        ELSE IF latency_stats.raised # "none"
        THEN ConvertRaised(latency_stats.raised, 1, 1)
        ELSE [raised |-> "none", n_user_id |-> 1, n_problem |-> 1, n_ip |-> 1,
              user_id |-> user_id.value,
              question_id |-> question_id,
              ip_addr |-> ip_addr,
              duration_ms |-> ep.end_time - ep.start_time,
              total_turns |-> Len(ep.states),
              success |-> pass.success,
              time_to_pass |-> pass.time_to_pass,
              turns_to_pass |-> pass.turns_to_pass,
              rates |-> regression_rates,
              latency |-> latency_stats,
              assistant_actions |-> action_stats.assistant_actions,
              human_actions |-> action_stats.human_actions]

(***************************************************************************)
(* Operations.                                                             *)
(***************************************************************************)
NoLookups == [user_id |-> 0, problem |-> 0, ip |-> 0]

\* push_telemetry_event_session, line 109: the kill-switch returns at once
PushDisabled ==
    /\ pc = "start"
    /\ is_telemetry_disabled(DISABLE_TELEMETRY)
    /\ pc' = "returned"
    /\ UNCHANGED <<episode, DISABLE_TELEMETRY, user_key_map, ip_service,
                   problem, result, lookups, n_posts, post_response,
                   n_error_logs, n_info_logs>>

\* push_telemetry_event_session, line 112: the record is assembled outside the
\* try block, so an exception of the assembler leaves the call
PushConvert ==
    /\ pc = "start"
    /\ ~is_telemetry_disabled(DISABLE_TELEMETRY)
    /\ LET r == convert_episode_session_to_telemetry_event(
                    episode, user_key_map, problem, ip_service)
       IN  /\ result' = r
           /\ lookups' = [user_id |-> lookups.user_id + r.n_user_id,
                          problem |-> lookups.problem + r.n_problem,
                          ip |-> lookups.ip + r.n_ip]
           /\ pc' = IF r.raised = "none" THEN "assembled" ELSE "raised"
    /\ UNCHANGED <<episode, DISABLE_TELEMETRY, user_key_map, ip_service,
                   problem, n_posts, post_response, n_error_logs, n_info_logs>>

PostResponses == {"ok", "http_error", "transport_error"}

\* push_telemetry_event_session, lines 114-123: one post; raise_for_status and
\* transport errors are caught and logged
PushPost ==
    /\ pc = "assembled"
    /\ \E response \in PostResponses :
          /\ post_response' = response
          /\ n_posts' = n_posts + 1
          /\ n_info_logs' = IF response = "ok" THEN n_info_logs + 1 ELSE n_info_logs
          /\ n_error_logs' =
                 IF response = "ok" THEN n_error_logs ELSE n_error_logs + 1
    /\ pc' = "returned"
    /\ UNCHANGED <<episode, DISABLE_TELEMETRY, user_key_map, ip_service,
                   problem, result, lookups>>

\* a direct call of convert_episode_session_to_telemetry_event
CallConvert ==
    /\ pc = "start"
    /\ LET r == convert_episode_session_to_telemetry_event(
                    episode, user_key_map, problem, ip_service)
       IN  /\ result' = r
           /\ lookups' = [user_id |-> lookups.user_id + r.n_user_id,
                          problem |-> lookups.problem + r.n_problem,
                          ip |-> lookups.ip + r.n_ip]
           /\ pc' = IF r.raised = "none" THEN "returned" ELSE "raised"
    /\ UNCHANGED <<episode, DISABLE_TELEMETRY, user_key_map, ip_service,
                   problem, n_posts, post_response, n_error_logs, n_info_logs>>

\* a direct call of _compute_action_statistics
CallActionStatistics ==
    /\ pc = "start"
    /\ result' = _compute_action_statistics(episode)
    /\ pc' = IF result'.raised = "none" THEN "returned" ELSE "raised"
    /\ UNCHANGED <<episode, DISABLE_TELEMETRY, user_key_map, ip_service,
                   problem, lookups, n_posts, post_response, n_error_logs,
                   n_info_logs>>

\* a direct call of _compute_regression_rates
CallRegressionRates ==
    /\ pc = "start"
    /\ result' = _compute_regression_rates(episode)
    /\ pc' = IF result'.raised = "none" THEN "returned" ELSE "raised"
    /\ UNCHANGED <<episode, DISABLE_TELEMETRY, user_key_map, ip_service,
                   problem, lookups, n_posts, post_response, n_error_logs,
                   n_info_logs>>

\* a direct call of _compute_latency_stats
CallLatencyStats ==
    /\ pc = "start"
    /\ result' = _compute_latency_stats(episode)
    /\ pc' = IF result'.raised = "none" THEN "returned" ELSE "raised"
    /\ UNCHANGED <<episode, DISABLE_TELEMETRY, user_key_map, ip_service,
                   problem, lookups, n_posts, post_response, n_error_logs,
                   n_info_logs>>

(***************************************************************************)
(* Bounded inputs.                                                         *)
(***************************************************************************)
MaxStatStates == 2

MaxPassStates == 2

MaxRegStates == 3

MaxLatStates == 4

MaxTestsPassed == 2

SeqsUpTo(S, n) == UNION { [1..k -> S] : k \in 0..n }

DefaultEnv == Env(Missing, Missing)

\* type values: missing, unknown, and four of the enumerated kinds
TypeInputs ==
    { None, Some("bogus"), Some(NO_OP), Some(EDIT_EXISTING_LINES),
      Some(EXPLAIN_SINGLE_LINES), Some(EXPLAIN_MULTI_LINE) }

IsDistanceType(type) == type # None /\ type[1] \in DistanceKinds

\* a target_line is drawn only where the code can read one
PayloadInputs ==
    { NonDictBranch }
    \cup { Payload(type, Missing) : type \in TypeInputs }
    \cup { Payload(type, IntValue(10)) :
             type \in { t \in TypeInputs : IsDistanceType(t) } }

\* None, the empty dict, one tag, both tags, and a top-level target_line that
\* is an integer or None
ActionInputs ==
    { NullAction, Action(MissingBranch, MissingBranch, Missing) }
    \cup { Action(p, MissingBranch, Missing) : p \in PayloadInputs }
    \cup { Action(MissingBranch, p, Missing) : p \in PayloadInputs }
    \cup { Action(Payload(Some(EDIT_EXISTING_LINES), tl), MissingBranch, IntValue(4)) :
             tl \in { Missing, IntValue(10) } }
    \cup { Action(Payload(Some(EDIT_EXISTING_LINES), Missing), MissingBranch,
                  StoredNone) }
    \cup { Action(Payload(Some(NO_OP), Missing),
                  Payload(Some(EDIT_EXISTING_LINES), Missing), Missing) }

AttributionInputs ==
    { <<>>,
      <<AttrCursor(IntValue(7), IntValue(0))>>,
      <<AttrCursor(Missing, IntValue(0))>>,
      <<NonDictAttr, AttrNoCursor, AttrCursorNonDict, AttrCursor(Missing, Missing),
        AttrCursor(Missing, IntValue(250)), AttrCursor(IntValue(7), Missing)>> }

\* a "line" and a "char" stored with None, each ahead of an entry that resolves
StoredNoneAttributionInputs ==
    { <<AttrCursor(StoredNone, IntValue(250)), AttrCursor(IntValue(9), Missing)>>,
      <<AttrCursor(Missing, StoredNone), AttrCursor(IntValue(9), Missing)>> }

UsesAttribution(action) ==
    /\ ~action.is_none
    /\ TaggedBranch(action).kind = "dict"
    /\ IsDistanceType(TaggedBranch(action).type)

StatStates ==
    { State(0, TsNone, action, <<>>, DefaultEnv) : action \in ActionInputs }
    \cup { State(0, TsNone, action, attribution, DefaultEnv) :
             action \in { a \in ActionInputs : UsesAttribution(a) },
             attribution \in AttributionInputs }
    \cup { State(0, TsNone, action, attribution, DefaultEnv) :
             action \in { a \in ActionInputs :
                            a.A.type = Some(EDIT_EXISTING_LINES) },
             attribution \in StoredNoneAttributionInputs }

TimestepInputs == {0, 1, 3}

PassTimestampInputs == { TsMissing, TsNone, TsNonNumeric, TsInt(100), TsInt(250) }

PassEnvInputs ==
    { Env(Missing, Missing), Env(BoolValue(TRUE), IntValue(0)),
      Env(BoolValue(FALSE), IntValue(1)), Env(BoolValue(TRUE), IntValue(1)) }

PassStates ==
    { State(timestep, ts, NullAction, <<>>, env) :
        timestep \in TimestepInputs, ts \in PassTimestampInputs,
        env \in PassEnvInputs }

StartTimeInputs == {0, 150}

RegStates ==
    { State(0, TsNone, NullAction, <<>>, Env(compiled, passed)) :
        compiled \in { Missing, BoolValue(TRUE), BoolValue(FALSE) },
        passed \in { Missing } \cup { IntValue(k) : k \in 0..MaxTestsPassed } }

LatTimestampInputs == { TsNone, TsInt(0), TsInt(1), TsInt(3), TsInt(7) }

LatStates ==
    { State(timestep, ts, NullAction, <<>>, DefaultEnv) :
        timestep \in {0, 1}, ts \in LatTimestampInputs }

EnvValueInputs ==
    { None, Some(<<>>), Some(<<"t", "r", "u", "e">>), Some(<<"T", "R", "U", "E">>),
      Some(<<"T", "r", "u", "e">>), Some(<<"1">>), Some(<<"y", "e", "s">>),
      Some(<<"Y", "E", "S">>), Some(<<"f", "a", "l", "s", "e">>), Some(<<"0">>),
      Some(<<"n", "o">>), Some(<<"o", "n">>) }

UserKeyMapInputs ==
    { "missing", "unreadable", "invalid_json", "empty_map", "no_account", "ok" }

ProblemInputs ==
    { Problem("none", 0), Problem("no_question_id", 0), Problem("non_int", 0),
      Problem("int", 1), Problem("int", 42) }

PushEpisodes ==
    { Episode(<<>>, 0, 0),
      Episode(<<State(0, TsInt(100),
                      Action(Payload(Some(NO_OP), Missing), MissingBranch, Missing),
                      <<>>, Env(BoolValue(TRUE), IntValue(1)))>>, 0, 400),
      Episode(<<State(0, TsInt(0), NullAction, <<>>,
                      Env(BoolValue(FALSE), IntValue(0))),
                State(1, TsInt(100), NullAction, <<>>,
                      Env(BoolValue(TRUE), IntValue(0))),
                State(2, TsInt(250), NullAction, <<>>,
                      Env(BoolValue(TRUE), IntValue(1)))>>,
              0, 300) }

(***************************************************************************)
(* Specifications.                                                         *)
(***************************************************************************)
InitCall ==
    /\ pc = "start"
    /\ result = None
    /\ lookups = NoLookups
    /\ n_posts = 0
    /\ post_response = "none"
    /\ n_error_logs = 0
    /\ n_info_logs = 0

InitLookupsOk ==
    /\ DISABLE_TELEMETRY = None
    /\ user_key_map = "ok"
    /\ ip_service = "ok"
    /\ problem = Problem("int", 1)

\* the reporting call, over every outcome of the lookups
Init ==
    /\ InitCall
    /\ episode \in PushEpisodes
    /\ DISABLE_TELEMETRY \in EnvValueInputs
    /\ user_key_map \in UserKeyMapInputs
    /\ ip_service \in {"ok", "error"}
    /\ problem \in ProblemInputs

Next == PushDisabled \/ PushConvert \/ PushPost

Spec == Init /\ [][Next]_vars

\* record assembly called directly, over every outcome of the lookups
InitConvert ==
    /\ InitCall
    /\ episode \in PushEpisodes
    /\ DISABLE_TELEMETRY = None
    /\ user_key_map \in UserKeyMapInputs
    /\ ip_service \in {"ok", "error"}
    /\ problem \in ProblemInputs

NextConvert == CallConvert

SpecConvert == InitConvert /\ [][NextConvert]_vars

\* record assembly over episodes that vary timestep, timestamp and env
InitPass ==
    /\ InitCall
    /\ InitLookupsOk
    /\ \E states \in SeqsUpTo(PassStates, MaxPassStates),
          start_time \in StartTimeInputs :
          episode = Episode(states, start_time, start_time + 300)

SpecPass == InitPass /\ [][NextConvert]_vars

\* _compute_action_statistics over episodes that vary action and attribution
InitStats ==
    /\ InitCall
    /\ InitLookupsOk
    /\ \E states \in SeqsUpTo(StatStates, MaxStatStates) :
          episode = Episode(states, 0, 0)

NextStats == CallActionStatistics

SpecStats == InitStats /\ [][NextStats]_vars

\* _compute_regression_rates over episodes that vary env
InitRegression ==
    /\ InitCall
    /\ InitLookupsOk
    /\ \E states \in SeqsUpTo(RegStates, MaxRegStates) :
          episode = Episode(states, 0, 0)

NextRegression == CallRegressionRates

SpecRegression == InitRegression /\ [][NextRegression]_vars

\* _compute_latency_stats over episodes that vary timestep and timestamp
InitLatency ==
    /\ InitCall
    /\ InitLookupsOk
    /\ \E states \in SeqsUpTo(LatStates, MaxLatStates) :
          episode = Episode(states, 0, 0)

NextLatency == CallLatencyStats

SpecLatency == InitLatency /\ [][NextLatency]_vars

(***************************************************************************)
(* Vocabulary of the properties, stated on the inputs alone.               *)
(***************************************************************************)
Called == pc # "start"

\* the "A" field is present: the action carries a value under "A"
ByAssistant(state) == state.action.A.kind \in {"nondict", "dict"}

\* the tagged branch the property speaks of: the "A" record when the "A" field
\* is present, the "H" record otherwise
BranchOf(state) ==
    IF ByAssistant(state) THEN state.action.A ELSE state.action.H

\* the state's action is non-null and classifies as one of the 7 kinds
Classifies(state) ==
    /\ ~state.action.is_none
    /\ BranchOf(state).kind = "dict"
    /\ BranchOf(state).type # None
    /\ BranchOf(state).type[1] \in ActionIndex

FailsToClassify(state) == ~state.action.is_none /\ ~Classifies(state)

KindOf(state) == BranchOf(state).type[1]

\* the first n states without those that fail to classify
RECURSIVE WithoutFailing(_, _)
WithoutFailing(xs, n) ==
    IF n = 0 THEN <<>>
    ELSE IF FailsToClassify(xs[n]) THEN WithoutFailing(xs, n - 1)
    ELSE Append(WithoutFailing(xs, n - 1), xs[n])

\* C2: every state whose non-null action fails to classify is skipped: no error
\* is raised and the statistics are those of the episode without these states.
C2_UnclassifiableSkipped ==
    Called =>
        /\ result.raised = "none"
        /\ result = _compute_action_statistics(
               Episode(WithoutFailing(episode.states, Len(episode.states)),
                       episode.start_time, episode.end_time))

\* the distance the property states: |target_line - cursor_line| with the
\* target_line of the payload inside the tagged branch, 1 when it has none
ClaimedDistance(state) ==
    LET cursor_line == _get_cursor_line_from_attribution(state.attribution)
        payload_target == BranchOf(state).target_line
        target_line == IF payload_target.kind = "int" THEN payload_target.val ELSE 1
    IN  IF cursor_line.raised # "none" \/ cursor_line.value.kind # "int" THEN 0
        ELSE Abs(target_line - cursor_line.value.val)

RECURSIVE ClaimedDistances(_, _, _)
ClaimedDistances(kind, states, n) ==
    IF n = 0 THEN <<>>
    ELSE IF Classifies(states[n]) /\ KindOf(states[n]) = kind
    THEN Append(ClaimedDistances(kind, states, n - 1), ClaimedDistance(states[n]))
    ELSE ClaimedDistances(kind, states, n - 1)

\* C3: for every state classified as one of the three distance kinds, the
\* distance appended to that kind's list is |target_line - cursor_line| with the
\* target_line of the payload inside the "A" or "H" record.
C3_DistanceFromPayloadTarget ==
    pc = "returned" =>
        LET n == Len(episode.states) IN
        /\ result.edit_existing_distances
               = ClaimedDistances(EDIT_EXISTING_LINES, episode.states, n)
        /\ result.explain_single_distances
               = ClaimedDistances(EXPLAIN_SINGLE_LINES, episode.states, n)
        /\ result.explain_multi_distances
               = ClaimedDistances(EXPLAIN_MULTI_LINE, episode.states, n)

Indices == 1..Len(episode.states)

Sum14(counts_a, counts_h) ==
    LET RECURSIVE SumOver(_, _)
        SumOver(counts, kinds) ==
            IF kinds = {} THEN 0
            ELSE LET k == CHOOSE x \in kinds : TRUE
                 IN  counts[k] + SumOver(counts, kinds \ {k})
    IN  SumOver(counts_a, ActionIndex) + SumOver(counts_h, ActionIndex)

\* C8: after _compute_action_statistics both mappings have an entry for each of
\* the 7 kinds, the 14 counters sum to the number of classified states, and each
\* classified state is counted once, under assistant when "A" is present and
\* under human otherwise.
C8_CountsComplete ==
    pc = "returned" =>
        /\ DOMAIN result.assistant_actions = ActionIndex
        /\ DOMAIN result.human_actions = ActionIndex
        /\ Sum14(result.assistant_actions, result.human_actions)
               = Cardinality({ i \in Indices : Classifies(episode.states[i]) })
        /\ \A kind \in ActionIndex :
              /\ result.assistant_actions[kind]
                     = Cardinality({ i \in Indices :
                           /\ Classifies(episode.states[i])
                           /\ KindOf(episode.states[i]) = kind
                           /\ ByAssistant(episode.states[i]) })
              /\ result.human_actions[kind]
                     = Cardinality({ i \in Indices :
                           /\ Classifies(episode.states[i])
                           /\ KindOf(episode.states[i]) = kind
                           /\ ~ByAssistant(episode.states[i]) })

\* an episode of two states: one classified under assistant, one carrying both
\* tags, counted once under assistant
C8_Witness ==
    /\ pc = "returned"
    /\ Len(episode.states) = 2
    /\ episode.states[1].action.A.kind = "dict"
    /\ episode.states[1].action.H.kind = "dict"
    /\ Classifies(episode.states[1])
    /\ Classifies(episode.states[2])
    /\ ~ByAssistant(episode.states[2])
    /\ Sum14(result.assistant_actions, result.human_actions) = 2

\* the identity mapping resolves to an account address
IdentityResolves == user_key_map = "ok"

\* C1: convert_episode_session_to_telemetry_event never raises on a resolution
\* failure: a record is returned for every outcome of the lookups, with user_id
\* "unknown" when identity cannot be resolved, ip_addr null when the IP lookup
\* fails and question_id null when the dataset lookup fails.
C1_NeverRaisesOnLookupFailure ==
    Called =>
        /\ pc = "returned"
        /\ result.raised = "none"
        /\ (~IdentityResolves => result.user_id = "unknown")
        /\ (ip_service = "error" => result.ip_addr = None)
        /\ (problem.kind # "int" => result.question_id = None)

\* compiled = true and tests.passed > 0
Passes(state) ==
    /\ state.env.compiled = BoolValue(TRUE)
    /\ state.env.tests_passed.kind = "int"
    /\ state.env.tests_passed.val > 0

PassingIndices == { i \in Indices : Passes(episode.states[i]) }

\* the first passing state in ascending timestep order: least timestep, and the
\* earliest stored among equal timesteps
FirstPassingIndex ==
    CHOOSE i \in PassingIndices :
        \A j \in PassingIndices :
            \/ episode.states[i].timestep < episode.states[j].timestep
            \/ /\ episode.states[i].timestep = episode.states[j].timestep
               /\ i <= j

FirstPassingState == episode.states[FirstPassingIndex]

\* a timestamp that is missing, null or non-numeric counts as 0
TimestampOrZero(ts) == IF ts.kind = "int" THEN ts.val ELSE 0

\* C4: when the first passing state has a timestamp_ms that is missing, null or
\* non-numeric, the timestamp counts as 0 and no error is raised:
\* time_to_pass = max(0, 0 - start_time) and turns_to_pass is its timestep.
C4_BadTimestampCountsAsZero ==
    (Called /\ PassingIndices # {} /\ FirstPassingState.timestamp_ms.kind # "int") =>
        /\ result.raised = "none"
        /\ result.time_to_pass = Some(Max(0, 0 - episode.start_time))
        /\ result.turns_to_pass = Some(FirstPassingState.timestep)

\* C5: for every episode turns_to_pass and time_to_pass are both null iff no
\* state passes; otherwise turns_to_pass is the least timestep of a passing
\* state and time_to_pass that state's timestamp_ms minus start_time, floored
\* at 0.
C5_PassFields ==
    Called =>
        /\ result.raised = "none"
        /\ (result.turns_to_pass = None <=> PassingIndices = {})
        /\ (result.time_to_pass = None <=> PassingIndices = {})
        /\ PassingIndices # {} =>
              /\ result.turns_to_pass = Some(FirstPassingState.timestep)
              /\ \A j \in PassingIndices :
                    result.turns_to_pass[1] <= episode.states[j].timestep
              /\ result.time_to_pass =
                     Some(Max(0, TimestampOrZero(FirstPassingState.timestamp_ms)
                                 - episode.start_time))

MaxTimestepOf(states) ==
    CHOOSE t \in { states[i].timestep : i \in 1..Len(states) } :
        \A i \in 1..Len(states) : states[i].timestep <= t

\* C10: whenever the assembled record has success = true (a state of maximum
\* timestep has compiled = true and tests.passed > 0), turns_to_pass and
\* time_to_pass are both non-null and turns_to_pass is at most the maximum
\* timestep; with zero states success is false and both are null.
C10_SuccessImpliesPassFields ==
    pc = "returned" =>
        /\ result.success = BoolValue(TRUE) =>
              /\ result.turns_to_pass # None
              /\ result.time_to_pass # None
              /\ result.turns_to_pass[1] <= MaxTimestepOf(episode.states)
              /\ \E i \in Indices :
                    /\ episode.states[i].timestep = MaxTimestepOf(episode.states)
                    /\ Passes(episode.states[i])
        /\ episode.states = <<>> =>
              /\ result.success = BoolValue(FALSE)
              /\ result.turns_to_pass = None
              /\ result.time_to_pass = None

\* two states stored in descending timestep order, both passing: success holds
\* and turns_to_pass is the smaller timestep
C10_Witness ==
    /\ pc = "returned"
    /\ Len(episode.states) = 2
    /\ episode.states[1].timestep > episode.states[2].timestep
    /\ result.success = BoolValue(TRUE)
    /\ result.turns_to_pass = Some(episode.states[2].timestep)
    /\ result.turns_to_pass[1] < MaxTimestepOf(episode.states)

\* the positive integer deltas between timestep-consecutive states
ValidDeltas ==
    LET states == SortByTimestep(episode.states) IN Latencies(states, Len(states))

CountBelow(xs, v) == Cardinality({ i \in 1..Len(xs) : xs[i] < v })

CountAtMost(xs, v) == Cardinality({ i \in 1..Len(xs) : xs[i] <= v })

\* v is the element at zero-based index k of xs sorted ascending
IsAtSortedIndex(xs, k, v) == CountBelow(xs, v) <= k /\ k < CountAtMost(xs, v)

\* C6: with n >= 1 valid deltas each percentile is read from the ascending
\* deltas at zero-based index floor(n*0.5), floor(n*0.9), floor(n*0.99); every
\* index is at most n-1, so nothing is read out of range, and p50 <= p90 <= p99;
\* with fewer than 2 states or no valid delta all three are 0.
C6_Percentiles ==
    Called =>
        LET n == Len(ValidDeltas) IN
        /\ result.raised = "none"
        /\ (Len(episode.states) < 2 \/ n = 0) =>
              /\ result.p50_latency_ms = 0
              /\ result.p90_latency_ms = 0
              /\ result.p99_latency_ms = 0
        /\ (Len(episode.states) >= 2 /\ n >= 1) =>
              /\ (n * 50) \div 100 <= n - 1
              /\ (n * 90) \div 100 <= n - 1
              /\ (n * 99) \div 100 <= n - 1
              /\ IsAtSortedIndex(ValidDeltas, (n * 50) \div 100, result.p50_latency_ms)
              /\ IsAtSortedIndex(ValidDeltas, (n * 90) \div 100, result.p90_latency_ms)
              /\ IsAtSortedIndex(ValidDeltas, (n * 99) \div 100, result.p99_latency_ms)
              /\ result.p50_latency_ms <= result.p90_latency_ms
              /\ result.p90_latency_ms <= result.p99_latency_ms

\* three valid deltas, stored out of timestep order, with p50 below p90
C6_Witness ==
    /\ pc = "returned"
    /\ Len(ValidDeltas) = 3
    /\ episode.states[1].timestep > episode.states[2].timestep
    /\ result.p50_latency_ms < result.p90_latency_ms
    /\ result.p90_latency_ms = result.p99_latency_ms

Transitions == { i \in Indices : i >= 2 }

\* the compiled flag of a state, false when the environment has none
CompiledFlag(state) == state.env.compiled = BoolValue(TRUE)

\* the number of passed tests of a state, 0 when the environment has none
PassedCount(state) ==
    IF state.env.tests_passed.kind = "int" THEN state.env.tests_passed.val ELSE 0

InUnitInterval(rate) == rate.den >= 1 /\ 0 <= rate.num /\ rate.num <= rate.den

\* C7: the four rates, each a count over consecutive stored pairs divided by
\* max(1, number of transitions), lie in [0,1]; compile regression plus compile
\* progression is at most 1; with fewer than 2 states all four are 0.0.
C7_RatesBounded ==
    pc = "returned" =>
        LET creg == result.compile_regression_rate
            cprog == result.compile_progression_rate
            treg == result.test_regression_rate
            tprog == result.test_progression_rate
            den == Max(1, Cardinality(Transitions))
        IN  /\ \A rate \in {creg, cprog, treg, tprog} :
                  InUnitInterval(rate) /\ rate.den = den
            /\ creg.num = Cardinality({ i \in Transitions :
                   CompiledFlag(episode.states[i - 1])
                   /\ ~CompiledFlag(episode.states[i]) })
            /\ cprog.num = Cardinality({ i \in Transitions :
                   ~CompiledFlag(episode.states[i - 1])
                   /\ CompiledFlag(episode.states[i]) })
            /\ treg.num = Cardinality({ i \in Transitions :
                   PassedCount(episode.states[i]) < PassedCount(episode.states[i - 1]) })
            /\ tprog.num = Cardinality({ i \in Transitions :
                   PassedCount(episode.states[i]) > PassedCount(episode.states[i - 1]) })
            /\ creg.num * cprog.den + cprog.num * creg.den <= creg.den * cprog.den
            /\ Len(episode.states) < 2 =>
                  creg.num = 0 /\ cprog.num = 0 /\ treg.num = 0 /\ tprog.num = 0

\* three states with one compile regression and one compile progression
C7_Witness ==
    /\ pc = "returned"
    /\ Len(episode.states) = 3
    /\ result.compile_regression_rate = Rate(1, 2)
    /\ result.compile_progression_rate = Rate(1, 2)
    /\ result.test_regression_rate.num = 1

\* the values of DISABLE_TELEMETRY that switch telemetry off
Truthy(value) ==
    value \in { Some(<<"t", "r", "u", "e">>), Some(<<"T", "R", "U", "E">>),
                Some(<<"T", "r", "u", "e">>), Some(<<"1">>),
                Some(<<"y", "e", "s">>), Some(<<"Y", "E", "S">>) }

\* C9: within one call of push_telemetry_event_session, a truthy kill-switch
\* means no transmission and no identity, IP or dataset lookup; otherwise, once
\* the record is assembled, exactly one transmission is attempted, a transport
\* error or non-success response is logged and swallowed, and the call returns.
C9_KillSwitchAndSinglePost ==
    /\ Truthy(DISABLE_TELEMETRY) =>
          /\ n_posts = 0
          /\ lookups = NoLookups
          /\ pc \in {"start", "returned"}
    /\ n_posts <= 1
    /\ pc = "raised" => n_posts = 0
    /\ (~Truthy(DISABLE_TELEMETRY) /\ pc = "assembled") => n_posts = 0
    /\ (~Truthy(DISABLE_TELEMETRY) /\ pc = "returned") =>
          /\ result # None
          /\ result.raised = "none"
          /\ n_posts = 1
          /\ post_response \in PostResponses
          /\ post_response # "ok" => n_error_logs = 1
          /\ post_response = "ok" => n_error_logs = 0

\* a call whose single transmission failed and was logged
C9_Witness ==
    /\ ~Truthy(DISABLE_TELEMETRY)
    /\ DISABLE_TELEMETRY # None
    /\ pc = "returned"
    /\ n_posts = 1
    /\ post_response = "transport_error"
    /\ n_error_logs = 1

====
